---------------------------- MODULE Spec2Model ----------------------------
(***************************************************************************)
(* vite-plugin-axon: the transform hook of src/index.ts.                   *)
(*                                                                         *)
(* The AST that @babel/parser returns is a heap of nodes: `nodes` is a     *)
(* sequence of node records, a node's identity is its index, and a child   *)
(* slot holds the child's index (0 for null).  Source text is kept         *)
(* abstract as the syntax tree it denotes (a nested value) or as text that *)
(* does not parse; parsing lays the tree out in the heap, generating reads *)
(* it back.  Strings that the code inspects by character (attribute names, *)
(* file ids) are sequences of one-character strings.                       *)
(***************************************************************************)
EXTENDS Naturals, Sequences, FiniteSets, TLC

VARIABLES
    id,        \* transform's `id` argument
    code,      \* transform's `code` argument
    pc,        \* position inside transform
    nodes,     \* the AST heap (`ast`), <<>> before parsing
    ast0,      \* history: the heap as the parser returned it
    visited,   \* JSXAttribute nodes the visitor has been called on
    changed,   \* `let changed`
    result,    \* value returned by transform, "none" while running or thrown
    calls,     \* history: how often parse / traverse / generate were invoked
    pass,      \* number of the current application of transform to the file
    outputs,   \* history: results of the earlier applications
    fnName,    \* classifier harness: attrName argument
    fnCall,    \* classifier harness: value returned by containsCall
    fnSkip     \* classifier harness: value returned by shouldSkip

vars == <<id, code, pc, nodes, ast0, visited, changed, result, calls, pass,
          outputs, fnName, fnCall, fnSkip>>

(***************************************************************************)
(* Bounds of the model.                                                    *)
(***************************************************************************)
MaxDepth == 2     \* wrappers around a leaf in a classifier-harness expression
MaxAttrs == 2     \* attributes of the root element in a multi-attribute file
MaxPass  == 2     \* applications of transform to one file
MaxNest  == 1     \* attributes nested inside an attribute's expression

(***************************************************************************)
(* Syntax trees as values.                                                 *)
(***************************************************************************)
Null == [kind |-> "null", name |-> <<>>, params |-> 0, kids |-> <<>>]

N(kind, kids) == [kind |-> kind, name |-> <<>>, params |-> 0, kids |-> kids]

Named(kind, name) == [kind |-> kind, name |-> name, params |-> 0, kids |-> <<>>]

Fn(kind, params, body) ==
    [kind |-> kind, name |-> <<>>, params |-> params, kids |-> <<body>>]

Ident == Named("Identifier", <<"x">>)

CallOf(callee, args) == N("CallExpression", <<callee>> \o args)

(* { return e } *)
Body(e) == N("BlockStatement", <<N("ReturnStatement", <<e>>)>>)

RECURSIVE Size(_), SizeKids(_, _)
Size(t) == IF t.kind = "null" THEN 0 ELSE 1 + SizeKids(t.kids, Len(t.kids))

SizeKids(ks, n) == IF n = 0 THEN 0 ELSE SizeKids(ks, n - 1) + Size(ks[n])

(* The heap cells of tree t, its root in cell `at`, its descendants after  *)
(* it in pre-order.                                                        *)
RECURSIVE Flat(_, _), FlatKids(_, _, _)
Flat(t, at) ==
    IF t.kind = "null" THEN <<>>
    ELSE LET kidId(i) == IF t.kids[i].kind = "null" THEN 0
                         ELSE at + 1 + SizeKids(t.kids, i - 1)
         IN  <<[kind |-> t.kind, name |-> t.name, params |-> t.params,
                kids |-> [i \in 1..Len(t.kids) |-> kidId(i)]]>>
             \o FlatKids(t.kids, 1, at + 1)

FlatKids(ks, i, at) ==
    IF i > Len(ks) THEN <<>>
    ELSE Flat(ks[i], at) \o FlatKids(ks, i + 1, at + Size(ks[i]))

(* The tree below heap cell n. *)
RECURSIVE TreeOf(_, _)
TreeOf(h, n) ==
    IF n = 0 THEN Null
    ELSE [kind |-> h[n].kind, name |-> h[n].name, params |-> h[n].params,
          kids |-> [i \in 1..Len(h[n].kids) |-> TreeOf(h, h[n].kids[i])]]

(***************************************************************************)
(* @babel/types predicates and the fields the code reads.                  *)
(***************************************************************************)
IsKind(h, n, k) == n # 0 /\ h[n].kind = k

isCallExpression(h, n)          == IsKind(h, n, "CallExpression")
isTemplateLiteral(h, n)         == IsKind(h, n, "TemplateLiteral")
isConditionalExpression(h, n)   == IsKind(h, n, "ConditionalExpression")
isLogicalExpression(h, n)       == IsKind(h, n, "LogicalExpression")
isBinaryExpression(h, n)        == IsKind(h, n, "BinaryExpression")
isUnaryExpression(h, n)         == IsKind(h, n, "UnaryExpression")
isMemberExpression(h, n)        == IsKind(h, n, "MemberExpression")
isArrayExpression(h, n)         == IsKind(h, n, "ArrayExpression")
isObjectExpression(h, n)        == IsKind(h, n, "ObjectExpression")
isObjectProperty(h, n)          == IsKind(h, n, "ObjectProperty")
isArrowFunctionExpression(h, n) == IsKind(h, n, "ArrowFunctionExpression")
isFunctionExpression(h, n)      == IsKind(h, n, "FunctionExpression")
isJSXIdentifier(h, n)           == IsKind(h, n, "JSXIdentifier")
isJSXExpressionContainer(h, n)  == IsKind(h, n, "JSXExpressionContainer")
isJSXEmptyExpression(h, n)      == IsKind(h, n, "JSXEmptyExpression")

Kid(h, n, i) == h[n].kids[i]

(***************************************************************************)
(* Faulty detectors: one that looks below every node, one that also looks  *)
(* through JSX used as a value.                                            *)
(***************************************************************************)
RECURSIVE containsCallAnywhere(_, _)
containsCallAnywhere(h, n) ==
    IF n = 0 THEN FALSE
    ELSE IF isCallExpression(h, n) THEN TRUE
    ELSE \E i \in 1..Len(h[n].kids) : containsCallAnywhere(h, Kid(h, n, i))

RECURSIVE containsCallThroughJsx(_, _)
containsCallThroughJsx(h, n) ==
    IF isCallExpression(h, n) THEN TRUE
    ELSE IF IsKind(h, n, "JSXElement") \/ IsKind(h, n, "JSXExpressionContainer")
        THEN \E i \in 1..Len(h[n].kids) : containsCallThroughJsx(h, Kid(h, n, i))
    ELSE IF IsKind(h, n, "JSXAttribute")
        THEN containsCallThroughJsx(h, Kid(h, n, 2))
    ELSE IF isTemplateLiteral(h, n)
        THEN \E i \in 1..Len(h[n].kids) : containsCallThroughJsx(h, Kid(h, n, i))
    ELSE IF isConditionalExpression(h, n)
        THEN \/ containsCallThroughJsx(h, Kid(h, n, 1))
             \/ containsCallThroughJsx(h, Kid(h, n, 2))
             \/ containsCallThroughJsx(h, Kid(h, n, 3))
    ELSE IF isLogicalExpression(h, n) \/ isBinaryExpression(h, n)
        THEN \/ containsCallThroughJsx(h, Kid(h, n, 1))
             \/ containsCallThroughJsx(h, Kid(h, n, 2))
    ELSE IF isUnaryExpression(h, n)
        THEN containsCallThroughJsx(h, Kid(h, n, 1))
    ELSE IF isMemberExpression(h, n)
        THEN containsCallThroughJsx(h, Kid(h, n, 1))
    ELSE IF isArrayExpression(h, n)
        THEN \E i \in 1..Len(h[n].kids) :
                Kid(h, n, i) # 0 /\ containsCallThroughJsx(h, Kid(h, n, i))
    ELSE IF isObjectExpression(h, n)
        THEN \E i \in 1..Len(h[n].kids) :
                IF isObjectProperty(h, Kid(h, n, i))
                THEN containsCallThroughJsx(h, Kid(h, Kid(h, n, i), 2))
                ELSE FALSE
    ELSE FALSE

(***************************************************************************)
(* containsCall (index.ts 33-63).                                          *)
(***************************************************************************)
RECURSIVE containsCall(_, _)
containsCall(h, n) ==
    IF isCallExpression(h, n) THEN TRUE
    ELSE IF isTemplateLiteral(h, n)
        THEN \E i \in 1..Len(h[n].kids) : containsCall(h, Kid(h, n, i))
    ELSE IF isConditionalExpression(h, n)
        THEN \/ containsCall(h, Kid(h, n, 1))
             \/ containsCall(h, Kid(h, n, 2))
             \/ containsCall(h, Kid(h, n, 3))
    ELSE IF isLogicalExpression(h, n) \/ isBinaryExpression(h, n)
        THEN containsCall(h, Kid(h, n, 1)) \/ containsCall(h, Kid(h, n, 2))
    ELSE IF isUnaryExpression(h, n)
        THEN containsCall(h, Kid(h, n, 1))
    ELSE IF isMemberExpression(h, n)
        THEN containsCall(h, Kid(h, n, 1))
    ELSE IF isArrayExpression(h, n)
        THEN \E i \in 1..Len(h[n].kids) :
                Kid(h, n, i) # 0 /\ containsCall(h, Kid(h, n, i))
    ELSE IF isObjectExpression(h, n)
        THEN \E i \in 1..Len(h[n].kids) :
                IF isObjectProperty(h, Kid(h, n, i))
                THEN containsCall(h, Kid(h, Kid(h, n, i), 2))
                ELSE FALSE
    ELSE FALSE

(***************************************************************************)
(* shouldSkip (index.ts 71-77).                                            *)
(***************************************************************************)
(* Faulty suffix test: the suffix anywhere in the string. *)
includes(s, suffix) ==
    \E i \in 1..Len(s) :
        i + Len(suffix) - 1 <= Len(s)
        /\ SubSeq(s, i, i + Len(suffix) - 1) = suffix

startsWith(s, prefix) ==
    Len(s) >= Len(prefix) /\ SubSeq(s, 1, Len(prefix)) = prefix

endsWith(s, suffix) ==
    Len(s) >= Len(suffix)
    /\ SubSeq(s, Len(s) - Len(suffix) + 1, Len(s)) = suffix

(* Faulty classifiers: one without the function-expression rule, one that *)
(* takes only on + capital letter for an event handler.                   *)
shouldSkipNoFunctionRule(attrName, h, valueNode) ==
    IF startsWith(attrName, <<"o", "n">>) /\ Len(attrName) > 2 THEN TRUE
    ELSE IF attrName = <<"r", "e", "f">> THEN TRUE
    ELSE IF isArrowFunctionExpression(h, valueNode) THEN TRUE
    ELSE FALSE

shouldSkipCamelCase(attrName, h, valueNode) ==
    IF /\ startsWith(attrName, <<"o", "n">>)
       /\ Len(attrName) > 2
       /\ attrName[3] \in {"C", "I", "X"} THEN TRUE
    ELSE IF attrName = <<"r", "e", "f">> THEN TRUE
    ELSE IF isArrowFunctionExpression(h, valueNode) THEN TRUE
    ELSE IF isFunctionExpression(h, valueNode) THEN TRUE
    ELSE FALSE

shouldSkip(attrName, h, valueNode) ==
    IF startsWith(attrName, <<"o", "n">>) /\ Len(attrName) > 2 THEN TRUE
    ELSE IF attrName = <<"r", "e", "f">> THEN TRUE
    ELSE IF isArrowFunctionExpression(h, valueNode) THEN TRUE
    ELSE IF isFunctionExpression(h, valueNode) THEN TRUE
    ELSE FALSE

(***************************************************************************)
(* The JSXAttribute visitor (index.ts 112-134) as a function of the heap:  *)
(* the heap it leaves and whether it set `changed`.                        *)
(***************************************************************************)
(* Faulty builder: the expression wrapped in a call instead of a closure. *)
callExpressionBuilt(params, body) ==
    [kind |-> "CallExpression", name |-> <<>>,
     params |-> Len(params), kids |-> <<body>>]

arrowFunctionExpression(params, body) ==
    [kind |-> "ArrowFunctionExpression", name |-> <<>>,
     params |-> Len(params), kids |-> <<body>>]

attrNameOf(h, a) ==
    LET name == Kid(h, a, 1)
    IN  IF isJSXIdentifier(h, name)
        THEN h[name].name
        ELSE h[Kid(h, name, 1)].name \o <<":">> \o h[Kid(h, name, 2)].name

Kept(h) == [nodes |-> h, wrapped |-> FALSE]

(* Faulty visitors: one that wraps call-free expressions too, one that     *)
(* wraps without setting the flag.                                         *)
visitWithoutCallCheck(h, a) ==
    LET attrName == attrNameOf(h, a)
        value    == Kid(h, a, 2)
    IN  IF ~isJSXExpressionContainer(h, value) THEN Kept(h)
        ELSE LET expr == Kid(h, value, 1)
             IN  IF isJSXEmptyExpression(h, expr) THEN Kept(h)
                 ELSE IF shouldSkip(attrName, h, expr) THEN Kept(h)
                 ELSE [nodes |->
                          Append([h EXCEPT ![value].kids = <<Len(h) + 1>>],
                                 arrowFunctionExpression(<<>>, expr)),
                       wrapped |-> TRUE]

visitWithoutFlag(h, a) ==
    LET attrName == attrNameOf(h, a)
        value    == Kid(h, a, 2)
    IN  IF ~isJSXExpressionContainer(h, value) THEN Kept(h)
        ELSE LET expr == Kid(h, value, 1)
             IN  IF isJSXEmptyExpression(h, expr) THEN Kept(h)
                 ELSE IF shouldSkip(attrName, h, expr) THEN Kept(h)
                 ELSE IF ~containsCall(h, expr) THEN Kept(h)
                 ELSE [nodes |->
                          Append([h EXCEPT ![value].kids = <<Len(h) + 1>>],
                                 arrowFunctionExpression(<<>>, expr)),
                       wrapped |-> FALSE]

visitJSXAttribute(h, a) ==
    LET attrName == attrNameOf(h, a)
        value    == Kid(h, a, 2)
    IN  IF ~isJSXExpressionContainer(h, value) THEN Kept(h)
        ELSE LET expr == Kid(h, value, 1)
             IN  IF isJSXEmptyExpression(h, expr) THEN Kept(h)
                 ELSE IF shouldSkip(attrName, h, expr) THEN Kept(h)
                 ELSE IF ~containsCall(h, expr) THEN Kept(h)
                 ELSE [nodes |->
                          Append([h EXCEPT ![value].kids = <<Len(h) + 1>>],
                                 arrowFunctionExpression(<<>>, expr)),
                       wrapped |-> TRUE]

(* Nodes of the tree below n, and the JSXAttribute nodes traverse finds.   *)
RECURSIVE Below(_, _)
Below(h, n) ==
    IF n = 0 THEN {}
    ELSE {n} \cup UNION {Below(h, h[n].kids[i]) : i \in 1..Len(h[n].kids)}

AttributesOf(h) ==
    IF h = <<>> THEN {}
    ELSE {n \in Below(h, 1) : h[n].kind = "JSXAttribute"}

(***************************************************************************)
(* Inputs: file ids and source texts.                                      *)
(***************************************************************************)
IdJsx    == <<"a", ".", "j", "s", "x">>
IdTsx    == <<"a", ".", "t", "s", "x">>
IdTs     == <<"a", ".", "t", "s">>
IdJs     == <<"a", ".", "j", "s">>
IdBak    == <<"a", ".", "j", "s", "x", ".", "b">>
IdNoDot  == <<"a", "j", "s", "x">>
IdUpper  == <<"a", ".", "J", "S", "X">>
IdBare   == <<".", "t", "s", "x">>
IdShort  == <<"s", "x">>

JsxIds == {IdJsx, IdTsx, IdBare}
Ids    == JsxIds \cup {IdTs, IdJs, IdBak, IdNoDot, IdUpper, IdShort, <<>>}

JSXId(s) == Named("JSXIdentifier", s)

JSXNs(ns, local) == N("JSXNamespacedName", <<JSXId(ns), JSXId(local)>>)

Attr(name, value) == N("JSXAttribute", <<name, value>>)

Container(e) == N("JSXExpressionContainer", <<e>>)

Elem(attrs) == N("JSXElement", attrs)

NameOn      == <<"o", "n">>
NameOnClick == <<"o", "n", "C", "l", "i", "c", "k">>
NameOnline  == <<"o", "n", "l", "i", "n", "e">>
NameRef     == <<"r", "e", "f">>
NameRefs    == <<"r", "e", "f", "s">>
NameClass   == <<"c", "l", "a", "s", "s">>

AttrNames ==
    {JSXId(NameOn), JSXId(NameOnClick), JSXId(NameOnline), JSXId(NameRef),
     JSXId(NameRefs), JSXId(NameClass),
     JSXNs(NameOn, NameClass), JSXNs(<<"o">>, <<"n", "x">>),
     JSXNs(<<"r", "e">>, <<"f">>), JSXNs(NameClass, NameOnClick)}

Call0 == CallOf(Ident, <<>>)

(* Expressions with no JSX inside. *)
PlainExprs ==
    {Ident, Named("StringLiteral", <<"s">>), Call0,
     Fn("ArrowFunctionExpression", 0, Call0),
     Fn("ArrowFunctionExpression", 1, Ident),
     Fn("FunctionExpression", 0, Body(Call0)),
     N("ConditionalExpression", <<Call0, Ident, Ident>>),
     N("TemplateLiteral", <<N("ConditionalExpression", <<Call0, Ident, Ident>>)>>),
     N("MemberExpression", <<Ident, Call0>>),
     N("MemberExpression", <<Call0, Ident>>),
     N("LogicalExpression", <<Ident, Ident>>),
     N("NewExpression", <<Ident, Call0>>),
     N("OptionalCallExpression", <<Ident>>),
     N("ArrayExpression", <<Null, Call0>>),
     N("ObjectExpression", <<N("SpreadElement", <<Call0>>)>>),
     N("ObjectExpression", <<N("ObjectProperty", <<Ident, Call0>>)>>)}

(* Attributes that stand inside another attribute's expression, nested     *)
(* `depth` deep; JSX as a value, as a call argument, as an operand.        *)
RECURSIVE InnerAttrs(_)
InnerAttrs(depth) ==
    {Attr(JSXId(NameClass), Container(Call0)),
     Attr(JSXId(NameOnClick), Container(Call0)),
     Attr(JSXId(NameClass), Container(Ident))}
    \cup (IF depth <= 1 THEN {}
          ELSE {Attr(JSXId(NameClass), Container(CallOf(Ident, <<Elem(<<a>>)>>)))
                  : a \in InnerAttrs(depth - 1)})

JsxExprs(depth) ==
    UNION {{Elem(<<a>>),
            CallOf(Ident, <<Elem(<<a>>)>>),
            N("LogicalExpression", <<Ident, Elem(<<a>>)>>),
            Fn("ArrowFunctionExpression", 0, Elem(<<a>>))}
             : a \in InnerAttrs(depth)}

AttrValues ==
    {Null, Named("StringLiteral", <<"s">>),
     Container(N("JSXEmptyExpression", <<>>)),
     Elem(<<Attr(JSXId(NameClass), Container(Call0))>>)}
    \cup {Container(e) : e \in PlainExprs \cup JsxExprs(MaxNest)}

AllAttrs == {Attr(n, v) : n \in AttrNames, v \in AttrValues}

CoreAttrs ==
    {Attr(JSXId(NameClass), Container(Call0)),
     Attr(JSXId(NameOnClick), Container(Call0)),
     Attr(JSXId(NameRefs), Container(Ident)),
     Attr(JSXId(NameOn),
          Container(CallOf(Ident, <<Elem(<<Attr(JSXId(NameClass),
                                               Container(Call0))>>)>>))),
     Attr(JSXId(NameClass),
          Container(Elem(<<Attr(JSXId(NameClass), Container(Call0))>>)))}

SeqsUpTo(S, n) == UNION {[1..k -> S] : k \in 0..n}

Source(tree) == [ok |-> TRUE, tree |-> tree]

Unparsable == [ok |-> FALSE, tree |-> Null]

Sources ==
    {Source(Elem(<<a>>)) : a \in AllAttrs}
    \cup {Source(Elem(s)) : s \in SeqsUpTo(CoreAttrs, MaxAttrs)}

GateSources ==
    {Unparsable,
     Source(Elem(<<Attr(JSXId(NameClass), Container(Call0))>>)),
     Source(Elem(<<Attr(JSXId(NameClass), Container(Ident))>>))}

Inputs ==
    ({IdJsx} \X Sources) \cup (Ids \X GateSources)

(***************************************************************************)
(* transform (index.ts 94-141), one action per step.                       *)
(***************************************************************************)
NoResult   == [kind |-> "none", code |-> Null, map |-> "none"]
NullResult == [kind |-> "null", code |-> Null, map |-> "none"]

NoCalls == [parse |-> 0, traverse |-> 0, generate |-> 0]

fnVars == <<fnName, fnCall, fnSkip>>

Init ==
    /\ \E in \in Inputs : id = in[1] /\ code = in[2]
    /\ pc = "gate"
    /\ nodes = <<>>
    /\ ast0 = <<>>
    /\ visited = {}
    /\ changed = FALSE
    /\ result = NoResult
    /\ calls = NoCalls
    /\ pass = 1
    /\ outputs = <<>>
    /\ fnName = <<>>
    /\ fnCall = FALSE
    /\ fnSkip = FALSE

Return(r) == result' = r /\ pc' = "done"

(* line 96 *)
ExtensionGate ==
    /\ pc = "gate"
    /\ IF ~endsWith(id, <<".", "j", "s", "x">>) /\ ~endsWith(id, <<".", "t", "s", "x">>)
       THEN Return(NullResult)
       ELSE pc' = "parse" /\ result' = result
    /\ UNCHANGED <<id, code, nodes, ast0, visited, changed, calls, pass,
                   outputs, fnVars>>

(* Faulty parse step: the syntax error escapes. *)
ParseUncaught ==
    /\ pc = "parse"
    /\ calls' = [calls EXCEPT !.parse = @ + 1]
    /\ IF code.ok
       THEN /\ nodes' = Flat(code.tree, 1)
            /\ ast0' = Flat(code.tree, 1)
            /\ pc' = "traverse"
       ELSE /\ pc' = "thrown"
            /\ UNCHANGED <<nodes, ast0>>
    /\ UNCHANGED <<id, code, visited, changed, result, pass, outputs, fnVars>>

(* lines 98-107 *)
Parse ==
    /\ pc = "parse"
    /\ calls' = [calls EXCEPT !.parse = @ + 1]
    /\ IF code.ok
       THEN /\ nodes' = Flat(code.tree, 1)
            /\ ast0' = Flat(code.tree, 1)
            /\ pc' = "traverse"
            /\ result' = result
       ELSE /\ Return(NullResult)
            /\ UNCHANGED <<nodes, ast0>>
    /\ UNCHANGED <<id, code, visited, changed, pass, outputs, fnVars>>

(* lines 109-111: the flag is cleared and traverse is entered *)
Traverse ==
    /\ pc = "traverse"
    /\ changed' = FALSE
    /\ calls' = [calls EXCEPT !.traverse = @ + 1]
    /\ pc' = "walk"
    /\ UNCHANGED <<id, code, nodes, ast0, visited, result, pass, outputs, fnVars>>

(* lines 112-134: traverse calls the visitor on an attribute of the tree   *)
(* it has not called it on yet                                             *)
JSXAttribute(a) ==
    /\ pc = "walk"
    /\ a \in AttributesOf(nodes) \ visited
    /\ LET r == visitJSXAttribute(nodes, a)
       IN  /\ nodes' = r.nodes
           /\ changed' = (changed \/ r.wrapped)
    /\ visited' = visited \cup {a}
    /\ UNCHANGED <<id, code, pc, ast0, result, calls, pass, outputs, fnVars>>

(* Faulty handling: the exception of traverse is caught like the parser's. *)
TraverseThrowsCaught ==
    /\ pc = "walk"
    /\ Return(NullResult)
    /\ UNCHANGED <<id, code, nodes, ast0, visited, changed, calls, pass,
                   outputs, fnVars>>

(* line 111: traverse throws (scope building, or the visitor reading a     *)
(* field of a node that lacks it at line 118, which is before the visitor  *)
(* has changed anything); nothing in transform catches it                  *)
TraverseThrows ==
    /\ pc = "walk"
    /\ pc' = "thrown"
    /\ UNCHANGED <<id, code, nodes, ast0, visited, changed, result, calls,
                   pass, outputs, fnVars>>

(* lines 135-137: traverse returns *)
AfterTraverse ==
    /\ pc = "walk"
    /\ AttributesOf(nodes) \subseteq visited
    /\ IF ~changed
       THEN Return(NullResult)
       ELSE pc' = "generate" /\ result' = result
    /\ UNCHANGED <<id, code, nodes, ast0, visited, changed, calls, pass,
                   outputs, fnVars>>

(* line 139: what generate is called with.  The only option passed is     *)
(* retainLines; sourceMaps is left unset.                                  *)
generateOptions == [retainLines |-> TRUE, sourceMaps |-> FALSE]

(* @babel/generator builds a source map only when opts.sourceMaps is set; *)
(* otherwise the map field of its result is null.                          *)
generate(h, opts) ==
    [code |-> TreeOf(h, 1),
     map  |-> IF opts.sourceMaps THEN "map" ELSE "null"]

(* lines 139-140 *)
Generate ==
    /\ pc = "generate"
    /\ calls' = [calls EXCEPT !.generate = @ + 1]
    /\ LET generated == generate(nodes, generateOptions)
       IN  Return([kind |-> "output", code |-> generated.code,
                   map |-> generated.map])
    /\ UNCHANGED <<id, code, nodes, ast0, visited, changed, pass, outputs,
                   fnVars>>

(* line 139: generate throws; nothing in transform catches it *)
GenerateThrows ==
    /\ pc = "generate"
    /\ calls' = [calls EXCEPT !.generate = @ + 1]
    /\ pc' = "thrown"
    /\ UNCHANGED <<id, code, nodes, ast0, visited, changed, result, pass,
                   outputs, fnVars>>

(* The host applies transform again to what the file now is: the returned  *)
(* text, or the original text after a null.                                *)
Reapply ==
    /\ pc = "done"
    /\ pass < MaxPass
    /\ pass' = pass + 1
    /\ outputs' = Append(outputs, result)
    /\ code' = IF result.kind = "output" THEN Source(result.code) ELSE code
    /\ pc' = "gate"
    /\ nodes' = <<>>
    /\ ast0' = <<>>
    /\ visited' = {}
    /\ changed' = FALSE
    /\ result' = NoResult
    /\ calls' = NoCalls
    /\ UNCHANGED <<id, fnVars>>

Next ==
    \/ ExtensionGate
    \/ Parse
    \/ Traverse
    \/ \E a \in 1..Len(nodes) : JSXAttribute(a)
    \/ TraverseThrows
    \/ AfterTraverse
    \/ Generate
    \/ GenerateThrows
    \/ Reapply

Spec == Init /\ [][Next]_vars

(***************************************************************************)
(* The classifier harness: containsCall and shouldSkip applied to one      *)
(* (name, expression) pair.  An expression is a leaf inside at most        *)
(* MaxDepth wrappers; a wrapper puts the inner expression into one child   *)
(* slot of a node and call-free fillers into the other slots, so that      *)
(* every child slot of every node kind is on some path to a call.          *)
(***************************************************************************)
Shapes ==
    {"callee", "argument", "quasi1", "quasi2", "test", "consequent",
     "alternate", "logicalLeft", "logicalRight", "binaryLeft", "binaryRight",
     "unary", "object", "property", "element", "afterHole", "propValue",
     "propKey", "spread", "method", "afterSpread", "arrowBody",
     "functionBody", "newCallee", "newArgument", "sequence", "assignment",
     "optionalCall", "optionalObject", "tsAs", "await", "jsxAttribute"}

Wrap(shape, e) ==
    CASE shape = "callee"        -> CallOf(e, <<>>)
      [] shape = "argument"      -> CallOf(Ident, <<e>>)
      [] shape = "quasi1"        -> N("TemplateLiteral", <<e>>)
      [] shape = "quasi2"        -> N("TemplateLiteral", <<Ident, e>>)
      [] shape = "test"          -> N("ConditionalExpression", <<e, Ident, Ident>>)
      [] shape = "consequent"    -> N("ConditionalExpression", <<Ident, e, Ident>>)
      [] shape = "alternate"     -> N("ConditionalExpression", <<Ident, Ident, e>>)
      [] shape = "logicalLeft"   -> N("LogicalExpression", <<e, Ident>>)
      [] shape = "logicalRight"  -> N("LogicalExpression", <<Ident, e>>)
      [] shape = "binaryLeft"    -> N("BinaryExpression", <<e, Ident>>)
      [] shape = "binaryRight"   -> N("BinaryExpression", <<Ident, e>>)
      [] shape = "unary"         -> N("UnaryExpression", <<e>>)
      [] shape = "object"        -> N("MemberExpression", <<e, Ident>>)
      [] shape = "property"      -> N("MemberExpression", <<Ident, e>>)
      [] shape = "element"       -> N("ArrayExpression", <<e>>)
      [] shape = "afterHole"     -> N("ArrayExpression", <<Null, e>>)
      [] shape = "propValue"     ->
            N("ObjectExpression", <<N("ObjectProperty", <<Ident, e>>)>>)
      [] shape = "propKey"       ->
            N("ObjectExpression", <<N("ObjectProperty", <<e, Ident>>)>>)
      [] shape = "spread"        ->
            N("ObjectExpression", <<N("SpreadElement", <<e>>)>>)
      [] shape = "method"        ->
            N("ObjectExpression", <<N("ObjectMethod", <<Ident, Body(e)>>)>>)
      [] shape = "afterSpread"   ->
            N("ObjectExpression", <<N("SpreadElement", <<Ident>>),
                                    N("ObjectProperty", <<Ident, e>>)>>)
      [] shape = "arrowBody"     -> Fn("ArrowFunctionExpression", 0, e)
      [] shape = "functionBody"  -> Fn("FunctionExpression", 1, Body(e))
      [] shape = "newCallee"     -> N("NewExpression", <<e>>)
      [] shape = "newArgument"   -> N("NewExpression", <<Ident, e>>)
      [] shape = "sequence"      -> N("SequenceExpression", <<Ident, e>>)
      [] shape = "assignment"    -> N("AssignmentExpression", <<Ident, e>>)
      [] shape = "optionalCall"  -> N("OptionalCallExpression", <<e>>)
      [] shape = "optionalObject" -> N("OptionalMemberExpression", <<e, Ident>>)
      [] shape = "tsAs"          -> N("TSAsExpression", <<e>>)
      [] shape = "await"         -> N("AwaitExpression", <<e>>)
      [] shape = "jsxAttribute"  ->
            Elem(<<Attr(JSXId(NameClass), Container(e))>>)

Leaves ==
    {Ident, Named("StringLiteral", <<"s">>), Call0,
     N("ArrayExpression", <<Null>>), N("ObjectExpression", <<>>),
     N("TemplateLiteral", <<>>)}

RECURSIVE ExprsOfDepth(_)
ExprsOfDepth(d) ==
    IF d = 0 THEN Leaves
    ELSE LET inner == ExprsOfDepth(d - 1)
         IN  inner \cup {Wrap(s, e) : s \in Shapes, e \in inner}

FnNames ==
    {<<>>, <<"o">>, NameOn, <<"o", "n", "X">>, NameOnClick, NameOnline,
     <<"O", "n", "x">>, <<"x", "o", "n">>, <<"n", "o", "x">>,
     <<"o", "n", ":", "x">>, <<"o", ":", "n", "x">>,
     NameRef, NameRefs, <<"R", "e", "f">>, <<"r", "e">>, NameClass}

(* Every expression under one name, and every name over the expressions    *)
(* of depth at most 1 (shouldSkip reads the expression's own kind only).   *)
FnInputs ==
    ({NameClass} \X ExprsOfDepth(MaxDepth)) \cup (FnNames \X ExprsOfDepth(1))

InitFn ==
    /\ \E in \in FnInputs : fnName = in[1] /\ nodes = Flat(in[2], 1)
    /\ pc = "classify"
    /\ fnCall = FALSE
    /\ fnSkip = FALSE
    /\ id = <<>>
    /\ code = Unparsable
    /\ ast0 = <<>>
    /\ visited = {}
    /\ changed = FALSE
    /\ result = NoResult
    /\ calls = NoCalls
    /\ pass = 1
    /\ outputs = <<>>

Classify ==
    /\ pc = "classify"
    /\ fnCall' = containsCall(nodes, 1)
    /\ fnSkip' = shouldSkip(fnName, nodes, 1)
    /\ pc' = "classified"
    /\ UNCHANGED <<id, code, nodes, ast0, visited, changed, result, calls,
                   pass, outputs, fnName>>

NextFn == Classify

SpecFn == InitFn /\ [][NextFn]_vars

(***************************************************************************)
(* Notions the properties below are stated with.                           *)
(***************************************************************************)
Parsed == ast0 # <<>>

(* The attribute's value slot and expression as the parser returned them. *)
Value0(a) == Kid(ast0, a, 2)

Expr0(a) == Kid(ast0, Value0(a), 1)

(* Attributes whose expression container no longer holds what was parsed. *)
Rewritten ==
    {a \in AttributesOf(ast0) :
        Value0(a) # 0 /\ nodes[Value0(a)] # ast0[Value0(a)]}

(* The container of a now holds a new zero-parameter arrow function whose  *)
(* body is the very node that was the container's expression.              *)
IsThunked(a) ==
    /\ Value0(a) # 0
    /\ nodes[Value0(a)].kind = "JSXExpressionContainer"
    /\ Len(nodes[Value0(a)].kids) = 1
    /\ LET t == nodes[Value0(a)].kids[1]
       IN  /\ t > Len(ast0)
           /\ nodes[t].kind = "ArrowFunctionExpression"
           /\ nodes[t].params = 0
           /\ nodes[t].kids = <<Expr0(a)>>

(* How many child slots of the heap hold node n. *)
Parents(h, n) ==
    UNION {{<<m, i>> : i \in {j \in 1..Len(h[m].kids) : h[m].kids[j] = n}}
              : m \in 1..Len(h)}

Qualifies(a) ==
    /\ isJSXExpressionContainer(ast0, Value0(a))
    /\ ~isJSXEmptyExpression(ast0, Expr0(a))
    /\ ~shouldSkip(attrNameOf(ast0, a), ast0, Expr0(a))
    /\ containsCall(ast0, Expr0(a))

(* C1: a visited attribute is rewritten iff its value is an expression     *)
(* container, the expression is not the empty placeholder, shouldSkip is   *)
(* false and containsCall is true; a rewritten attribute's container holds *)
(* a zero-parameter thunk whose body is the original expression node,      *)
(* which stays in the tree exactly once; every other attribute, and every  *)
(* node that is not a rewritten container, is as the parser returned it.   *)
C1_RewriteIffQualifies ==
    Parsed =>
        /\ \A a \in AttributesOf(ast0) \cap visited :
              IF Qualifies(a)
              THEN /\ IsThunked(a)
                   /\ Cardinality(Parents(nodes, Expr0(a))) = 1
                   /\ Expr0(a) \in Below(nodes, 1)
              ELSE a \notin Rewritten
        /\ \A a \in AttributesOf(ast0) \ visited : a \notin Rewritten
        /\ \A n \in 1..Len(ast0) :
              nodes[n] # ast0[n] => \E a \in Rewritten : n = Value0(a)

C1_Witness ==
    /\ pc = "done"
    /\ \E a, b \in visited :
          /\ Qualifies(a) /\ IsThunked(a)
          /\ ~Qualifies(b) /\ containsCall(ast0, Expr0(b))

(* The edges the detector may follow below node n. *)
AllowListKids(h, n) ==
    LET k == h[n].kind
        all == {h[n].kids[i] : i \in 1..Len(h[n].kids)} \ {0}
    IN  IF k \in {"TemplateLiteral", "ConditionalExpression",
                  "LogicalExpression", "BinaryExpression", "UnaryExpression",
                  "ArrayExpression"}
        THEN all
        ELSE IF k = "MemberExpression" THEN {h[n].kids[1]}
        ELSE IF k = "ObjectExpression"
            THEN {h[p].kids[2] : p \in {q \in all : h[q].kind = "ObjectProperty"}}
        ELSE {}

RECURSIVE AllowListClosure(_, _)
AllowListClosure(h, S) ==
    LET T == S \cup UNION {AllowListKids(h, n) : n \in S}
    IN  IF T = S THEN S ELSE AllowListClosure(h, T)

CallOnAllowList(h, n) ==
    \E m \in AllowListClosure(h, {n}) : h[m].kind = "CallExpression"

(* C2: containsCall(node) is true exactly when a CallExpression is         *)
(* reachable from node through the allow-list edges only: interpolated     *)
(* expressions, test/consequent/alternate, left/right, a unary's operand,  *)
(* a member expression's object, non-hole elements, property values.       *)
C2_DetectorIsAllowList ==
    pc = "classified" => fnCall = CallOnAllowList(nodes, 1)

(* a[f()]: the call is the computed key *)
C2_Witness ==
    /\ pc = "classified"
    /\ ~fnCall
    /\ nodes[1].kind = "MemberExpression"
    /\ nodes[nodes[1].kids[2]].kind = "CallExpression"

(* C3: shouldSkip(name, expr) is true iff one of the four rules holds:     *)
(* name is "on" plus at least one more character, name is "ref", expr is   *)
(* an arrow function, expr is a function expression.                       *)
C3_SkipIffSomeRule ==
    pc = "classified" =>
        fnSkip = (\/ nodes[1].kind = "FunctionExpression"
                  \/ nodes[1].kind = "ArrowFunctionExpression"
                  \/ (Len(fnName) = 3 /\ fnName[1] = "r" /\ fnName[2] = "e"
                        /\ fnName[3] = "f")
                  \/ (Len(fnName) >= 3 /\ fnName[1] = "o" /\ fnName[2] = "n"))

C3_Witness ==
    /\ pc = "classified"
    /\ fnSkip
    /\ fnName = NameClass
    /\ nodes[1].kind = "FunctionExpression"

OnPlus(name) == Len(name) >= 3 /\ name[1] = "o" /\ name[2] = "n"

(* C4: an attribute whose canonical name is "on" followed by at least one  *)
(* character is never wrapped, whatever its expression; an attribute       *)
(* named exactly "on" whose expression is a call is wrapped when visited.  *)
C4_OnPrefixNeverWrapped ==
    Parsed =>
        \A a \in AttributesOf(ast0) :
            /\ OnPlus(attrNameOf(ast0, a)) =>
                  /\ a \notin Rewritten
                  /\ nodes[a] = ast0[a]
            /\ (/\ attrNameOf(ast0, a) = NameOn
                /\ a \in visited
                /\ isJSXExpressionContainer(ast0, Value0(a))
                /\ isCallExpression(ast0, Expr0(a))) => IsThunked(a)

C4_Witness ==
    /\ pc = "done"
    /\ result.kind = "null"
    /\ \E a \in visited :
          /\ attrNameOf(ast0, a) = NameOnline
          /\ isJSXExpressionContainer(ast0, Value0(a))
          /\ isCallExpression(ast0, Expr0(a))

(* C5: a second (or later) application of transform to the file rewrites   *)
(* nothing: the flag stays false, the tree stays as parsed, the generator  *)
(* is not reached and the result is null.                                  *)
C5_Idempotent ==
    pass >= 2 =>
        /\ ~changed
        /\ nodes = ast0
        /\ pc # "generate"
        /\ (pc = "done" => result.kind = "null")

C5_Witness ==
    /\ pass = 2
    /\ pc = "done"
    /\ outputs[1].kind = "output"
    /\ Cardinality(visited) >= 2

HasJsxExtension(s) ==
    /\ Len(s) >= 4
    /\ s[Len(s) - 3] = "."
    /\ s[Len(s) - 2] \in {"j", "t"}
    /\ s[Len(s) - 1] = "s"
    /\ s[Len(s)] = "x"

(* C6: for a JSX file that parses, transform returns null iff no attribute *)
(* was rewritten, returns the generated text together with a source map    *)
(* otherwise, and the changed flag says whether an attribute was           *)
(* rewritten.                                                              *)
C6_NullIffNothingRewritten ==
    (HasJsxExtension(id) /\ code.ok /\ Parsed) =>
        /\ pc \in {"walk", "generate", "done", "thrown"} =>
              (changed <=> Rewritten # {})
        /\ pc = "done" =>
              /\ result.kind = "null" <=> Rewritten = {}
              /\ Rewritten # {} =>
                    /\ result.kind = "output"
                    /\ result.code = TreeOf(nodes, 1)
                    /\ result.map = "map"

(* What of C6 the code does: the same, except that the map field of the   *)
(* returned object is null, generate having been called without           *)
(* sourceMaps.                                                             *)
C6_TextWithNullMap ==
    (HasJsxExtension(id) /\ code.ok /\ Parsed) =>
        /\ pc \in {"walk", "generate", "done", "thrown"} =>
              (changed <=> Rewritten # {})
        /\ pc = "done" =>
              /\ result.kind = "null" <=> Rewritten = {}
              /\ Rewritten # {} =>
                    /\ result.kind = "output"
                    /\ result.code = TreeOf(nodes, 1)
                    /\ result.map = "null"

(* C7: when the id does not end with .jsx or .tsx, transform returns null  *)
(* at once: parse, traverse and generate are never invoked.                *)
C7_OtherExtensionsNotParsed ==
    ~HasJsxExtension(id) =>
        /\ calls = NoCalls
        /\ nodes = <<>>
        /\ pc \in {"gate", "done"}
        /\ pc = "done" => result.kind = "null"

C7_Witness ==
    /\ pc = "done"
    /\ id = IdBak
    /\ code.ok
    /\ result.kind = "null"

(* C8: when the text does not parse, transform returns null, nothing is    *)
(* thrown, and neither traverse nor generate is invoked.                   *)
C8_ParseFailureIsNull ==
    (HasJsxExtension(id) /\ ~code.ok) =>
        /\ pc \in {"gate", "parse", "done"}
        /\ calls.traverse = 0
        /\ calls.generate = 0
        /\ pc = "done" => result.kind = "null" /\ calls.parse = 1

C8_Witness ==
    /\ pc = "done"
    /\ ~code.ok
    /\ calls.parse = 1
    /\ result.kind = "null"

(* C9: an exception after a successful parse leaves transform without a    *)
(* return value; a returned null means the whole walk ran and rewrote      *)
(* nothing, a returned text is the generated form of the fully walked      *)
(* tree.                                                                   *)
C9_FailurePropagates ==
    /\ pc = "thrown" => result = NoResult /\ Parsed
    /\ (result.kind = "null" /\ Parsed) =>
          /\ AttributesOf(nodes) \subseteq visited
          /\ Rewritten = {}
    /\ result.kind = "output" =>
          /\ AttributesOf(nodes) \subseteq visited
          /\ result.code = TreeOf(nodes, 1)

(* thrown in the middle of the walk, one attribute already rewritten *)
C9_Witness ==
    /\ pc = "thrown"
    /\ Rewritten # {}
    /\ ~(AttributesOf(nodes) \subseteq visited)

(* The heap after the visitor has been applied to the attributes in the    *)
(* order of their node ids, which is document order.                       *)
RECURSIVE InDocumentOrder(_, _, _)
InDocumentOrder(h, a, last) ==
    IF a > last THEN h
    ELSE IF h[a].kind = "JSXAttribute"
        THEN InDocumentOrder(visitJSXAttribute(h, a).nodes, a + 1, last)
    ELSE InDocumentOrder(h, a + 1, last)

(* C10: when the walk is over every attribute of the parsed tree, nested   *)
(* ones included, has been decided, none has been wrapped twice, and the   *)
(* tree and the flag are those of the walk in document order, whatever     *)
(* order the attributes were visited in.                                   *)
C10_OrderIndependent ==
    (Parsed /\ pc \in {"generate", "done"}) =>
        /\ visited = AttributesOf(ast0)
        /\ AttributesOf(nodes) = AttributesOf(ast0)
        /\ Len(nodes) - Len(ast0) = Cardinality(Rewritten)
        /\ \A a \in Rewritten : IsThunked(a)
        /\ LET h == InDocumentOrder(ast0, 1, Len(ast0))
           IN  /\ TreeOf(nodes, 1) = TreeOf(h, 1)
               /\ changed = (h # ast0)

(* the inner attribute was wrapped before the attribute enclosing it *)
C10_Witness ==
    /\ pc = "done"
    /\ \E a, b \in Rewritten :
          /\ b \in Below(ast0, a)
          /\ a # b
          /\ nodes[Value0(b)].kids[1] < nodes[Value0(a)].kids[1]

=============================================================================
